---- MODULE Spec2Model ----
(***************************************************************************)
(* A model of src/ppo.py: the rollout buffer (PPOMemory), the actor's      *)
(* sampling path (ActorNetwork.sample_normal) and the Agent facade with    *)
(* its learn() loop.                                                       *)
(*                                                                         *)
(* Numbers.  Rewards, values and log-probabilities are floats in the       *)
(* program.  The advantage recursion is modelled in exact rational         *)
(* arithmetic (pairs <<num, den>>), so float rounding is abstracted away.  *)
(* The Normal log-density is modelled in fixed point with two decimals     *)
(* (the integer x stands for x / 100), the running reward statistics with  *)
(* four (x stands for x / 10000).                                          *)
(* The networks are opaque: a parameter set is a token of 0..MaxParam and  *)
(* a forward pass yields any value of the input sets.                      *)
(***************************************************************************)
EXTENDS Integers, Sequences, FiniteSets, TLC

\* ------------------------------------------------------------------ bounds

\* Longest rollout buffer the caller fills before learning.
MaxBuf == 3
\* Largest minibatch size the agent is constructed with.
MaxBatch == 2
\* Largest epoch count the agent is constructed with.
MaxEpochs == 2
\* Parameter sets are tokens 0..MaxParam.
MaxParam == 2
\* Calls of normalize_reward in one run.
MaxNormalize == 2
\* Longest buffer of the batch-generation specification.
MaxBatchN == 4
\* Longest buffer of the advantage specification.
MaxGaeN == 4

\* ------------------------------------------------------- program constants

\* running_mean = 0.99 * running_mean + 0.01 * reward (per cent weights).
EmaKeep == 99
EmaNew == 1

\* ------------------------------------------------------------- arithmetic

Min(a, b) == IF a <= b THEN a ELSE b
Max(a, b) == IF a >= b THEN a ELSE b
Abs(a) == IF a < 0 THEN -a ELSE a

RECURSIVE Gcd(_, _)
Gcd(a, b) == IF b = 0 THEN a ELSE Gcd(b, a % b)

\* Exact rationals <<num, den>>, den > 0, in lowest terms.
RNorm(n, d) ==
    LET g == Gcd(Abs(n), d) IN <<n \div g, d \div g>>
RInt(x) == <<x, 1>>
RAdd(p, q) ==
    LET l == (p[2] \div Gcd(p[2], q[2])) * q[2]
    IN RNorm(p[1] * (l \div p[2]) + q[1] * (l \div q[2]), l)
RNeg(p) == <<-p[1], p[2]>>
RSub(p, q) == RAdd(p, RNeg(q))
RMul(p, q) ==
    LET a == RNorm(p[1], q[2])
        b == RNorm(q[1], p[2])
    IN <<a[1] * b[1], a[2] * b[2]>>
RDivInt(p, n) == RNorm(p[1], p[2] * n)

RECURSIVE RSum(_)
RSum(s) == IF s = <<>> THEN RInt(0) ELSE RAdd(Head(s), RSum(Tail(s)))

\* Records.  Every record is written with its fields in the order in which the
\* field names first occur in this module.

\* ------------------------------------------------------------------ state

VARIABLES
    \* Agent.__init__ arguments kept by the agent
    batch_size, n_epochs, gamma, gae_lambda,
    \* PPOMemory
    states, actions, probs, vals, rewards, dones,
    \* the transitions stored since the buffer was last cleared, in order
    stored,
    \* Agent.learn: position, loop counters and locals
    pc, ep, bi, arr, batches, advantage, adv_norm, loss,
    \* gradients held by the two parameter sets
    actor_grad, critic_grad,
    \* per learn() call: generate_batches calls, advantage computations and
    \* optimizer steps made so far
    n_gen, n_adv, actor_steps, critic_steps,
    \* parameters of the two networks and the two checkpoint files
    actor_params, critic_params, actor_file, critic_file,
    \* running reward statistics (fixed point) and the normalize_reward calls so far
    running_mean, running_var, n_norm,
    \* the last finished call of the API: its name, outcome and returned value
    ret

cfgvars == <<batch_size, n_epochs, gamma, gae_lambda>>
memvars == <<states, actions, probs, vals, rewards, dones>>
learnvars == <<pc, ep, bi, arr, batches, advantage, adv_norm, loss>>
gradvars == <<actor_grad, critic_grad>>
countvars == <<n_gen, n_adv, actor_steps, critic_steps>>
netvars == <<actor_params, critic_params>>
filevars == <<actor_file, critic_file>>
statvars == <<running_mean, running_var, n_norm>>
vars == <<cfgvars, memvars, stored, learnvars, gradvars, countvars, netvars,
          filevars, statvars, ret>>

\* ------------------------------------------------------------- PPOMemory

\* np.arange(start, stop, step) for step >= 1
RECURSIVE Arange(_, _, _)
Arange(start, stop, step) ==
    IF start >= stop THEN <<>>
    ELSE <<start>> \o Arange(start + step, stop, step)

\* The outcomes of np.random.shuffle on arange(n): every permutation of 0..n-1.
RECURSIVE Orders(_)
Orders(S) ==
    IF S = {} THEN {<<>>}
    ELSE UNION {{<<x>> \o p : p \in Orders(S \ {x})} : x \in S}
Shuffles(n) == Orders(0..(n - 1))

\* indices[i:i + batch_size], i counted from 0; a slice stops at the end
Slice(indices, i, size) ==
    SubSeq(indices, i + 1, Min(i + size, Len(indices)))

\* generate_batches with batch_start = arange(0, n_states - 1, batch_size)
BatchesShortRange(indices, size) ==
    LET batch_start == Arange(0, Len(indices) - 1, size)
    IN [k \in 1..Len(batch_start) |-> Slice(indices, batch_start[k], size)]

\* PPOMemory.generate_batches, for the shuffle's outcome `indices`
Batches(indices, size) ==
    LET batch_start == Arange(0, Len(indices), size)
    IN [k \in 1..Len(batch_start) |-> Slice(indices, batch_start[k], size)]

Arrays ==
    [state_arr |-> states, action_arr |-> actions, old_prob_arr |-> probs,
     vals_arr |-> vals, reward_arr |-> rewards, dones_arr |-> dones]

NoArrays ==
    [state_arr |-> <<>>, action_arr |-> <<>>, old_prob_arr |-> <<>>,
     vals_arr |-> <<>>, reward_arr |-> <<>>, dones_arr |-> <<>>]

\* PPOMemory.store_memory
StoreMemory(t) ==
    /\ states' = Append(states, t.state)
    /\ actions' = Append(actions, t.action)
    /\ probs' = Append(probs, t.probs)
    /\ vals' = Append(vals, t.vals)
    /\ rewards' = Append(rewards, t.reward)
    /\ dones' = Append(dones, t.done)

\* clear_memory without its last line
ClearMemoryKeepVals ==
    /\ states' = <<>>
    /\ probs' = <<>>
    /\ actions' = <<>>
    /\ rewards' = <<>>
    /\ dones' = <<>>
    /\ vals' = vals

\* PPOMemory.clear_memory
ClearMemory ==
    /\ states' = <<>>
    /\ probs' = <<>>
    /\ actions' = <<>>
    /\ rewards' = <<>>
    /\ dones' = <<>>
    /\ vals' = <<>>

\* ------------------------------------------------- advantages (learn, 175-183)

\* delta of line 179 at buffer position t (counted from 0)
Delta(reward_arr, vals_arr, dones_arr, g, t) ==
    RSub(RAdd(RInt(reward_arr[t + 1]),
              RMul(RMul(g, RInt(vals_arr[t + 2])),
                   RInt(1 - (IF dones_arr[t + 1] THEN 1 ELSE 0)))),
         RInt(vals_arr[t + 1]))

\* line 180 without gae_lambda
GaeStepGammaOnly(delta, g, l, last_adv) == RAdd(delta, RMul(g, last_adv))

\* the value line 180 assigns to advantage[t] and to last_adv
GaeStep(delta, g, l, last_adv) == RAdd(delta, RMul(RMul(g, l), last_adv))

\* for t in reversed(range(len(reward_arr) - 1)), from position t downwards
RECURSIVE GaeLoop(_, _, _, _, _, _)
GaeLoop(a, t, last_adv, adv, g, l) ==
    IF t < 0 THEN adv
    ELSE LET v == GaeStep(Delta(a.reward_arr, a.vals_arr, a.dones_arr, g, t),
                          g, l, last_adv)
         IN GaeLoop(a, t - 1, v, [adv EXCEPT ![t + 1] = v], g, l)

\* lines 175-180: np.zeros(len(reward_arr)), then the loop
RawAdvantage(a, g, l) ==
    GaeLoop(a, Len(a.reward_arr) - 2, RInt(0),
            [i \in 1..Len(a.reward_arr) |-> RInt(0)], g, l)

\* line 183: advantage - advantage.mean(), elementwise.  The division by
\* (std + 1e-8) is one positive factor shared by all elements; it is left
\* symbolic, so adv_norm is in units of that factor.
Centered(adv) ==
    IF adv = <<>> THEN <<>>
    ELSE LET mean == RDivInt(RSum(adv), Len(adv))
         IN [i \in 1..Len(adv) |-> RSub(adv[i], mean)]

\* ---------------------------------------------- tensors and broadcasting

RECURSIVE SeqMax(_)
SeqMax(s) == IF s = <<>> THEN 0 ELSE Max(Head(s), SeqMax(Tail(s)))

\* the index tuples (counted from 1) of a tensor of the given shape
Indices(shape) ==
    {ix \in [1..Len(shape) -> 1..SeqMax(shape)] :
        \A k \in 1..Len(shape) : ix[k] <= shape[k]}

\* shape padded on the left with 1s to rank r
Pad(shape, r) ==
    [k \in 1..r |-> IF k <= r - Len(shape) THEN 1 ELSE shape[k - (r - Len(shape))]]

\* the shape of x op y under the broadcasting rule (compatible shapes)
BroadcastShape(s, t) ==
    LET r == Max(Len(s), Len(t))
    IN [k \in 1..r |-> IF Pad(s, r)[k] = 1 THEN Pad(t, r)[k] ELSE Pad(s, r)[k]]

\* the index of the operand of shape s that result index ix reads
Project(ix, s) ==
    [k \in 1..Len(s) |-> IF s[k] = 1 THEN 1 ELSE ix[k + (Len(ix) - Len(s))]]

\* x op y elementwise: each element records the two operand elements it combines
Broadcast(x, y) ==
    LET shape == BroadcastShape(x.shape, y.shape)
    IN [shape |-> shape,
        at |-> [ix \in Indices(shape) |->
                  <<x.at[Project(ix, x.shape)], y.at[Project(ix, y.shape)]>>]]

\* arr[batch] for a 1-d array: shape (B,), element j is buffer position batch[j]
Gather1(batch) ==
    [shape |-> <<Len(batch)>>, at |-> [ix \in Indices(<<Len(batch)>>) |-> batch[ix[1]]]]

\* a (B, 1) column, row i of buffer position batch[i]
Column(batch) ==
    [shape |-> <<Len(batch), 1>>,
     at |-> [ix \in Indices(<<Len(batch), 1>>) |-> batch[ix[1]]]]

\* line 195: dist.log_prob(actions).sum(1, keepdim=True) has shape (B, 1)
NewProbs(batch) == Column(batch)

\* line 187: old_prob_arr[batch]; each stored log-prob has shape (1,) (line 91,
\* keepdim=True), so the array has shape (n, 1) and the selection shape (B, 1)
OldProbs(batch) == Column(batch)

\* line 196: exp(new_probs - old_probs), elements <<new, old>>
ProbRatio(batch) == Broadcast(NewProbs(batch), OldProbs(batch))

\* line 198: advantage[batch] * prob_ratio, elements <<advantage, <<new, old>>>>
WeightedProbs(batch) ==
    Broadcast(Gather1(batch), ProbRatio(batch))

\* line 199: clamp(prob_ratio, ...) * advantage[batch], elements <<<<new, old>>, advantage>>
WeightedClippedProbs(batch) ==
    Broadcast(ProbRatio(batch), Gather1(batch))

\* ------------------------------------------- ActorNetwork.sample_normal

\* tanh in fixed point, tabulated every 0.5; 1.00 from 3.0 on
TanhTab(a) ==
    CASE a = 0 -> 0 [] a = 50 -> 46 [] a = 100 -> 76 [] a = 150 -> 91
      [] a = 200 -> 96 [] a = 250 -> 99 [] OTHER -> 100
Tanh(x) ==
    IF x < 0 THEN -TanhTab((Abs(x) \div 50) * 50) ELSE TanhTab((x \div 50) * 50)

\* ln of a standard deviation in fixed point
LnStd(s) == CASE s = 50 -> -69 [] s = 100 -> 0 [] s = 200 -> 69

\* T.clamp(std, min=1e-6): the floor is below the fixed-point unit
ClampStd(std) == [d \in 1..Len(std) |-> Max(std[d], 0)]

\* Normal(mean, std).log_prob(x) for one dimension:
\* -(x - mean)^2 / (2 std^2) - ln std - ln sqrt(2 pi)
LogProb(x, mean, std) ==
    -(((x - mean) * (x - mean) * 100) \div (2 * std * std)) - LnStd(std) - 92

RECURSIVE SumSeq(_)
SumSeq(s) == IF s = <<>> THEN 0 ELSE Head(s) + SumSeq(Tail(s))

\* line 91: dist.log_prob(x).sum(dim=-1)
LogProbSum(x, mean, std) ==
    SumSeq([d \in 1..Len(x) |-> LogProb(x[d], mean[d], std[d])])

\* sample_normal with the log-density taken at the draw of line 88
SampleNormalAtRaw(mean, std, raw) ==
    LET s == ClampStd(std)
        action == [d \in 1..Len(raw) |-> 2 * Tanh(raw[d])]
    IN [action |-> action, mean |-> mean, std |-> s, raw |-> raw,
        log_prob |-> LogProbSum(raw, mean, s)]

\* lines 83-92 for the forward pass's (mean, std) and the draw `raw` of line 88;
\* line 89 rebinds `action`, so line 91 reads the squashed action
SampleNormal(mean, std, raw) ==
    LET s == ClampStd(std)
        action == [d \in 1..Len(raw) |-> 2 * Tanh(raw[d])]
    IN [action |-> action, mean |-> mean, std |-> s, raw |-> raw,
        log_prob |-> LogProbSum(action, mean, s)]

\* -------------------------------------------------- Agent.normalize_reward

\* the integer square root, by Newton's iteration from above
RECURSIVE IsqrtFrom(_, _)
IsqrtFrom(x, g) ==
    LET h == (g + x \div g) \div 2 IN IF h >= g THEN g ELSE IsqrtFrom(x, h)
Isqrt(x) == IF x <= 0 THEN 0 ELSE IsqrtFrom(x, x)

\* line 159
NewRunningMean(mean, reward) == (EmaKeep * mean + EmaNew * reward) \div 100
\* line 160, with the mean line 159 has just set
NewRunningVar(var, mean, reward) ==
    (EmaKeep * var + EmaNew * (((reward - mean) * (reward - mean)) \div 10000)) \div 100
\* line 161: sqrt(var); epsilon keeps the denominator positive
NormalizedReward(var, mean, reward) ==
    ((reward - mean) * 10000) \div Max(Isqrt(var * 10000), 1)

\* ------------------------------------------------------------ the calls

NoValue == [none |-> TRUE]
Ret(op, outcome, value) == [op |-> op, outcome |-> outcome, value |-> value]

NoLoss == [weighted_probs |-> NoValue, weighted_clipped_probs |-> NoValue]

\* a checkpoint file that does not exist
NoFile == -1

\* an optimizer step maps a parameter set to another one
OptimiserStep(params) == (params + 1) % (MaxParam + 1)

Idle == pc = "idle"

\* Agent.remember
Remember(t) ==
    /\ Idle
    /\ Len(states) < MaxBuf
    /\ StoreMemory(t)
    /\ stored' = Append(stored, t)
    /\ ret' = Ret("remember", "returned", NoValue)
    /\ UNCHANGED <<cfgvars, learnvars, gradvars, countvars, netvars, filevars, statvars>>

\* a call of PPOMemory.clear_memory from outside learn()
ClearMemoryCall ==
    /\ Idle
    /\ ClearMemory
    /\ stored' = <<>>
    /\ ret' = Ret("clear_memory", "returned", NoValue)
    /\ UNCHANGED <<cfgvars, learnvars, gradvars, countvars, netvars, filevars, statvars>>

\* a call of PPOMemory.generate_batches from outside learn()
GenerateBatchesCall ==
    /\ Idle
    /\ \E indices \in Shuffles(Len(states)) :
          ret' = Ret("generate_batches", "returned",
                     [batches |-> Batches(indices, batch_size), arrays |-> Arrays])
    /\ UNCHANGED <<cfgvars, memvars, stored, learnvars, gradvars, countvars,
                   netvars, filevars, statvars>>

\* save_models calling load_checkpoint
SaveModelsRestoring ==
    /\ Idle
    /\ actor_params' = IF actor_file = NoFile THEN actor_params ELSE actor_file
    /\ critic_params' = IF critic_file = NoFile THEN critic_params ELSE critic_file
    /\ ret' = Ret("save_models", "returned", NoValue)
    /\ UNCHANGED <<cfgvars, memvars, stored, learnvars, gradvars, countvars,
                   filevars, statvars>>

\* Agent.save_models
SaveModels ==
    /\ Idle
    /\ actor_file' = actor_params
    /\ critic_file' = critic_params
    /\ ret' = Ret("save_models", "returned", NoValue)
    /\ UNCHANGED <<cfgvars, memvars, stored, learnvars, gradvars, countvars,
                   netvars, statvars>>

\* Agent.load_models: the actor's checkpoint is loaded first; a missing file raises
LoadModels ==
    /\ Idle
    /\ actor_params' = IF actor_file = NoFile THEN actor_params ELSE actor_file
    /\ critic_params' = IF actor_file = NoFile \/ critic_file = NoFile
                        THEN critic_params ELSE critic_file
    /\ ret' = Ret("load_models",
                  IF actor_file = NoFile \/ critic_file = NoFile
                  THEN "raised" ELSE "returned", NoValue)
    /\ UNCHANGED <<cfgvars, memvars, stored, learnvars, gradvars, countvars,
                   filevars, statvars>>

\* Agent.normalize_reward
NormalizeReward(reward) ==
    /\ Idle
    /\ n_norm < MaxNormalize
    /\ n_norm' = n_norm + 1
    /\ running_mean' = NewRunningMean(running_mean, reward)
    /\ running_var' = NewRunningVar(running_var, running_mean', reward)
    /\ ret' = Ret("normalize_reward", "returned",
                  [normalized_reward |->
                      NormalizedReward(running_var', running_mean', reward)])
    /\ UNCHANGED <<cfgvars, memvars, stored, learnvars, gradvars, countvars,
                   netvars, filevars>>

\* Agent.choose_action: the forward passes yield (mean, std) and value, the
\* distribution yields the draw raw
ChooseAction(mean, std, raw, value) ==
    /\ Idle
    /\ ret' = Ret("choose_action", "returned",
                  [value |-> value, sample |-> SampleNormal(mean, std, raw)])
    /\ UNCHANGED <<cfgvars, memvars, stored, learnvars, gradvars, countvars,
                   netvars, filevars, statvars>>

\* ----------------------------------------------------------- Agent.learn

\* learn() is entered
LearnCall ==
    /\ Idle
    /\ pc' = "epoch"
    /\ ep' = 0
    /\ ret' = Ret("learn", "running", NoValue)
    /\ UNCHANGED <<cfgvars, memvars, stored, bi, arr, batches, advantage, adv_norm,
                   loss, gradvars, countvars, netvars, filevars, statvars>>

\* lines 173-183: the next epoch starts
EpochBegin ==
    /\ pc = "epoch"
    /\ ep < n_epochs
    /\ arr' = Arrays
    /\ n_gen' = n_gen + 1
    /\ advantage' = RawAdvantage(arr', gamma, gae_lambda)
    /\ adv_norm' = Centered(advantage')
    /\ n_adv' = n_adv + 1
    /\ bi' = 0
    /\ pc' = "batch"
    /\ UNCHANGED <<cfgvars, memvars, stored, ep, loss, gradvars, actor_steps,
                   critic_steps, netvars, filevars, statvars, ret>>
    /\ \E indices \in Shuffles(Len(states)) :
          batches' = Batches(indices, batch_size)

\* lines 185-208: the next batch's forward passes and losses
BatchForward ==
    /\ pc = "batch"
    /\ bi < Len(batches)
    /\ loss' = [weighted_probs |-> WeightedProbs(batches[bi + 1]),
                weighted_clipped_probs |-> WeightedClippedProbs(batches[bi + 1])]
    /\ pc' = "zero_grad"
    /\ UNCHANGED <<cfgvars, memvars, stored, ep, bi, arr, batches, advantage,
                   adv_norm, gradvars, countvars, netvars, filevars, statvars, ret>>

\* lines 209-210
ZeroGrad ==
    /\ pc = "zero_grad"
    /\ actor_grad' = "zero"
    /\ critic_grad' = "zero"
    /\ pc' = "backward"
    /\ UNCHANGED <<cfgvars, memvars, stored, ep, bi, arr, batches, advantage,
                   adv_norm, loss, countvars, netvars, filevars, statvars, ret>>

\* line 211
Backward ==
    /\ pc = "backward"
    /\ actor_grad' = "computed"
    /\ critic_grad' = "computed"
    /\ pc' = "clip"
    /\ UNCHANGED <<cfgvars, memvars, stored, ep, bi, arr, batches, advantage,
                   adv_norm, loss, countvars, netvars, filevars, statvars, ret>>

\* the batch update without lines 213-214
ClipGradSkipped ==
    /\ pc = "clip"
    /\ pc' = "step"
    /\ UNCHANGED <<cfgvars, memvars, stored, ep, bi, arr, batches, advantage,
                   adv_norm, loss, gradvars, countvars, netvars, filevars, statvars,
                   ret>>

\* lines 213-214
ClipGrad ==
    /\ pc = "clip"
    /\ actor_grad' = "clipped"
    /\ critic_grad' = "clipped"
    /\ pc' = "step"
    /\ UNCHANGED <<cfgvars, memvars, stored, ep, bi, arr, batches, advantage,
                   adv_norm, loss, countvars, netvars, filevars, statvars, ret>>

\* lines 216-217, and the batch loop moves on
Step ==
    /\ pc = "step"
    /\ actor_params' = OptimiserStep(actor_params)
    /\ actor_steps' = actor_steps + 1
    /\ critic_params' = OptimiserStep(critic_params)
    /\ critic_steps' = critic_steps + 1
    /\ bi' = bi + 1
    /\ loss' = NoLoss
    /\ pc' = "batch"
    /\ UNCHANGED <<cfgvars, memvars, stored, ep, arr, batches, advantage, adv_norm,
                   gradvars, n_gen, n_adv, filevars, statvars, ret>>

\* line 219 inside the epoch loop
EpochEndClearing ==
    /\ pc = "batch"
    /\ bi = Len(batches)
    /\ ClearMemory
    /\ stored' = <<>>
    /\ ep' = ep + 1
    /\ pc' = "epoch"
    /\ UNCHANGED <<cfgvars, bi, arr, batches, advantage, adv_norm,
                   loss, gradvars, countvars, netvars, filevars, statvars, ret>>

\* the batch loop is exhausted: the epoch loop moves on
EpochEnd ==
    /\ pc = "batch"
    /\ bi = Len(batches)
    /\ ep' = ep + 1
    /\ pc' = "epoch"
    /\ UNCHANGED <<cfgvars, memvars, stored, bi, arr, batches, advantage, adv_norm,
                   loss, gradvars, countvars, netvars, filevars, statvars, ret>>

\* learn() resetting the running reward statistics as it returns
LearnReturnResettingStats ==
    /\ pc = "epoch"
    /\ ep = n_epochs
    /\ ClearMemory
    /\ stored' = <<>>
    /\ pc' = "idle"
    /\ ep' = 0
    /\ bi' = 0
    /\ arr' = NoArrays
    /\ batches' = <<>>
    /\ advantage' = <<>>
    /\ adv_norm' = <<>>
    /\ n_gen' = 0
    /\ n_adv' = 0
    /\ actor_steps' = 0
    /\ critic_steps' = 0
    /\ ret' = Ret("learn", "returned", NoValue)
    /\ running_mean' = 0
    /\ running_var' = 10000
    /\ UNCHANGED <<cfgvars, loss, gradvars, netvars, filevars, n_norm>>

\* line 219: the epoch loop is exhausted; the buffer is cleared and learn() returns
LearnReturn ==
    /\ pc = "epoch"
    /\ ep = n_epochs
    /\ ClearMemory
    /\ stored' = <<>>
    /\ pc' = "idle"
    /\ ep' = 0
    /\ bi' = 0
    /\ arr' = NoArrays
    /\ batches' = <<>>
    /\ advantage' = <<>>
    /\ adv_norm' = <<>>
    /\ n_gen' = 0
    /\ n_adv' = 0
    /\ actor_steps' = 0
    /\ critic_steps' = 0
    /\ ret' = Ret("learn", "returned", NoValue)
    /\ UNCHANGED <<cfgvars, loss, gradvars, netvars, filevars, statvars>>

Learn ==
    \/ LearnCall
    \/ EpochBegin
    \/ BatchForward
    \/ ZeroGrad
    \/ Backward
    \/ ClipGrad
    \/ Step
    \/ EpochEnd
    \/ LearnReturn

\* ------------------------------------------------------- specifications

\* the k-th transition a caller stores: every field names k; a stored
\* log-prob has shape (1,)
Transition(k) ==
    [probs |-> <<k>>, vals |-> k, state |-> k, action |-> k, reward |-> k,
     done |-> (k % 2 = 0)]

\* the state after Agent.__init__, for the given arguments and with the given
\* transitions already stored
Constructed(b, e, g, l, mem) ==
    /\ batch_size = b
    /\ n_epochs = e
    /\ gamma = g
    /\ gae_lambda = l
    /\ states = [i \in 1..Len(mem) |-> mem[i].state]
    /\ actions = [i \in 1..Len(mem) |-> mem[i].action]
    /\ probs = [i \in 1..Len(mem) |-> mem[i].probs]
    /\ vals = [i \in 1..Len(mem) |-> mem[i].vals]
    /\ rewards = [i \in 1..Len(mem) |-> mem[i].reward]
    /\ dones = [i \in 1..Len(mem) |-> mem[i].done]
    /\ stored = mem
    /\ pc = "idle"
    /\ ep = 0
    /\ bi = 0
    /\ arr = NoArrays
    /\ batches = <<>>
    /\ advantage = <<>>
    /\ adv_norm = <<>>
    /\ loss = NoLoss
    /\ actor_grad = "none"
    /\ critic_grad = "none"
    /\ n_gen = 0
    /\ n_adv = 0
    /\ actor_steps = 0
    /\ critic_steps = 0
    /\ actor_params = 0
    /\ critic_params = 0
    /\ running_mean = 0
    /\ running_var = 10000
    /\ n_norm = 0
    /\ ret = Ret("init", "returned", NoValue)

\* the configurations checked: the smallest and the largest batch size, no
\* epoch and the largest epoch count
Configs == {1, MaxBatch} \X {0, MaxEpochs}

\* The buffer's life: an empty buffer is filled, batched, learnt from and cleared.
Init ==
    /\ \E c \in Configs : Constructed(c[1], c[2], <<9, 10>>, <<1, 2>>, <<>>)
    /\ actor_file = NoFile
    /\ critic_file = NoFile

Next ==
    \/ \E k \in 1..2 : Remember(Transition(k))
    \/ ClearMemoryCall
    \/ GenerateBatchesCall
    \/ Learn

Spec == Init /\ [][Next]_vars

\* The networks' life: every call of the facade, with checkpoint files that an
\* earlier run may have left.
InitParams ==
    /\ Constructed(MaxBatch, 1, <<9, 10>>, <<1, 2>>, <<>>)
    /\ actor_file \in {NoFile, MaxParam}
    /\ critic_file \in {NoFile, MaxParam}

NextParams ==
    \/ Remember(Transition(1))
    \/ SaveModels
    \/ LoadModels
    \/ NormalizeReward(10000)
    \/ ChooseAction(<<0, 0>>, <<100, 100>>, <<100, -200>>, 0)
    \/ Learn

SpecParams == InitParams /\ [][NextParams]_vars

\* The running reward statistics' life.
NormRewards == {-10000, 10000}

InitStats ==
    /\ Constructed(MaxBatch, 1, <<9, 10>>, <<1, 2>>, <<>>)
    /\ actor_file = NoFile
    /\ critic_file = NoFile

NextStats ==
    \/ \E k \in 1..2 : Remember(Transition(k))
    \/ ClearMemoryCall
    \/ \E reward \in NormRewards : NormalizeReward(reward)
    \/ ChooseAction(<<0, 0>>, <<100, 100>>, <<100, -200>>, 0)
    \/ Learn

SpecStats == InitStats /\ [][NextStats]_vars

\* Batch generation alone, on buffers of every length and every batch size.
InitBatches ==
    /\ \E n \in 0..MaxBatchN, b \in 1..MaxBatchN :
          Constructed(b, 1, <<9, 10>>, <<1, 2>>, [i \in 1..n |-> Transition(i)])
    /\ actor_file = NoFile
    /\ critic_file = NoFile

NextBatches == GenerateBatchesCall

SpecBatches == InitBatches /\ [][NextBatches]_vars

\* The advantage computation alone: learn() up to line 183 on buffers of every
\* content.
GaeTransitions ==
    [probs : {<<0>>}, vals : 0..1, state : {0}, action : {0}, reward : {1},
     done : BOOLEAN]
GaeBuffers == UNION {[1..n -> GaeTransitions] : n \in 1..MaxGaeN}

InitGae ==
    /\ \E mem \in GaeBuffers : Constructed(MaxBatch, 1, <<9, 10>>, <<1, 2>>, mem)
    /\ actor_file = NoFile
    /\ critic_file = NoFile

NextGae ==
    \/ LearnCall
    \/ EpochBegin

SpecGae == InitGae /\ [][NextGae]_vars

\* Sampling alone: choose_action for every forward-pass result and draw.
Means == {<<m1, m2>> : m1 \in {-100, 0, 100}, m2 \in {0}}
Stds == {<<s1, s2>> : s1 \in {50, 100, 200}, s2 \in {100}}
Draws == {<<r1, r2>> : r1, r2 \in {-200, -100, 0, 100, 200}}

NextSample ==
    \E mean \in Means, std \in Stds, raw \in Draws : ChooseAction(mean, std, raw, 0)

SpecSample == InitStats /\ [][NextSample]_vars

\* ------------------------------------------------------------- claims

InEpoch == pc \in {"batch", "zero_grad", "backward", "clip", "step"}
BatchLoaded == pc \in {"zero_grad", "backward", "clip", "step"}

\* ceil(n / b)
Ceil(n, b) == (n + b - 1) \div b

\* C1: generate_batches on a buffer of n >= 1 transitions with batch size b
\* returns ceil(n/b) batches, each of size at most b and all but the last of
\* size b, and every index of 0..n-1 occurs in exactly one place of one batch.
C1_BatchesPartition ==
    (ret.op = "generate_batches" /\ Len(states) >= 1) =>
        LET n == Len(states)
            b == batch_size
            bs == ret.value.batches
            places(i) == {kj \in (1..Len(bs)) \X (1..b) :
                            kj[2] <= Len(bs[kj[1]]) /\ bs[kj[1]][kj[2]] = i}
        IN /\ Len(bs) = Ceil(n, b)
           /\ \A k \in 1..Len(bs) :
                 /\ Len(bs[k]) <= b
                 /\ k < Len(bs) => Len(bs[k]) = b
                 /\ \A j \in 1..Len(bs[k]) : bs[k][j] \in 0..(n - 1)
           /\ \A i \in 0..(n - 1) : Cardinality(places(i)) = 1

\* four transitions in batches of three: a full batch and a short last one
C1_Witness ==
    /\ ret.op = "generate_batches"
    /\ Len(states) = 4
    /\ batch_size = 3
    /\ Len(ret.value.batches) = 2
    /\ Len(ret.value.batches[1]) = 3
    /\ Len(ret.value.batches[2]) = 1

\* C2: the six field sequences of the buffer have one length, and position i
\* of each holds the field of the i-th transition stored since the last clear.
C2_FieldsAligned ==
    /\ Len(states) = Len(stored)
    /\ Len(actions) = Len(stored)
    /\ Len(probs) = Len(stored)
    /\ Len(vals) = Len(stored)
    /\ Len(rewards) = Len(stored)
    /\ Len(dones) = Len(stored)
    /\ \A i \in 1..Len(stored) :
          /\ states[i] = stored[i].state
          /\ actions[i] = stored[i].action
          /\ probs[i] = stored[i].probs
          /\ vals[i] = stored[i].vals
          /\ rewards[i] = stored[i].reward
          /\ dones[i] = stored[i].done

\* two transitions stored after a learn() that cleared the buffer
C2_Witness ==
    /\ ret.op = "remember"
    /\ actor_grad = "clipped"
    /\ Len(stored) = 2
    /\ stored[1] = Transition(2)
    /\ stored[2] = Transition(1)
    /\ rewards = <<2, 1>>

\* C3: while learn() runs, no step but its return changes the buffer, every
\* epoch's arrays are the buffer's contents, and the step that returns is the
\* one after the last epoch and leaves all six sequences empty.
C3_ClearedOnceAtEnd ==
    [][/\ (pc # "idle" /\ pc' # "idle") =>
             (UNCHANGED memvars /\ (InEpoch' => arr' = Arrays'))
       /\ (pc # "idle" /\ pc' = "idle") =>
             /\ pc = "epoch" /\ ep = n_epochs
             /\ states' = <<>> /\ actions' = <<>> /\ probs' = <<>>
             /\ vals' = <<>> /\ rewards' = <<>> /\ dones' = <<>>]_vars

\* learn() has returned from a run of two epochs that made optimizer steps,
\* and the buffer is empty
C3_Witness ==
    /\ ret.op = "learn"
    /\ ret.outcome = "returned"
    /\ n_epochs = 2
    /\ actor_params = 1
    /\ Len(states) = 0
    /\ Len(vals) = 0

\* delta[t] of the claim, from the buffer (t counted from 0)
ClaimDelta(t) ==
    RSub(RAdd(RInt(rewards[t + 1]),
              IF dones[t + 1] THEN RInt(0) ELSE RMul(gamma, RInt(vals[t + 2]))),
         RInt(vals[t + 1]))

\* the sum over j = k..n-2 of w (gamma lambda)^(j-k) delta[j]: with w = 1 and
\* k = t, the (gamma lambda)-discounted sum of delta[t..n-2]
RECURSIVE DiscountedSum(_, _, _, _)
DiscountedSum(k, n, w, gl) ==
    IF k > n - 2 THEN RInt(0)
    ELSE RAdd(RMul(w, ClaimDelta(k)), DiscountedSum(k + 1, n, RMul(w, gl), gl))

\* C4: the raw advantage array of a buffer of n >= 1 transitions has length n,
\* advantage[n-1] = 0, and for t < n-1 advantage[t] = delta[t] + gamma lambda
\* advantage[t+1], which is the discounted sum of delta[t..n-2].
C4_GaeRecursion ==
    (InEpoch /\ Len(rewards) >= 1) =>
        LET n == Len(rewards)
            gl == RMul(gamma, gae_lambda)
        IN /\ Len(advantage) = n
           /\ advantage[n] = RInt(0)
           /\ \A t \in 0..(n - 2) :
                 /\ advantage[t + 1] = RAdd(ClaimDelta(t), RMul(gl, advantage[t + 2]))
                 /\ advantage[t + 1] = DiscountedSum(t, n, RInt(1), gl)

\* the claim's example: n = 4, rewards 1, values 0, dones (0, 0, 0, 1); with
\* gamma lambda = 9/20 the advantages are 1 + 9/20 (1 + 9/20), 1 + 9/20, 1, 0
C4_Witness ==
    /\ pc = "batch"
    /\ rewards = <<1, 1, 1, 1>>
    /\ vals = <<0, 0, 0, 0>>
    /\ dones = <<FALSE, FALSE, FALSE, TRUE>>
    /\ advantage = <<<<661, 400>>, <<29, 20>>, <<1, 1>>, <<0, 1>>>>

\* C5 (as claimed): batch generation on an empty buffer does not return
\* normally, neither called directly nor inside learn().
C5_EmptyBufferIsFatal ==
    /\ (ret.op = "generate_batches" /\ Len(states) = 0) => ret.outcome = "raised"
    /\ (ret.op = "learn" /\ Len(states) = 0) => ~InEpoch /\ n_gen = 0

\* C6 (as claimed): only an optimizer step of learn() changes the actor's or
\* the critic's parameters.
C6_OnlyOptimiserWrites ==
    [][(actor_params' # actor_params \/ critic_params' # critic_params) =>
          (pc = "step" /\ pc' = "batch")]_vars

\* C6 (amended): a parameter set changes only in an optimizer step of learn()
\* or in load_models, which sets it to the contents of its checkpoint file.
C6_OnlyOptimiserOrLoad ==
    [][/\ actor_params' # actor_params =>
             \/ pc = "step" /\ pc' = "batch"
             \/ Idle /\ ret'.op = "load_models" /\ actor_params' = actor_file
       /\ critic_params' # critic_params =>
             \/ pc = "step" /\ pc' = "batch"
             \/ Idle /\ ret'.op = "load_models" /\ critic_params' = critic_file]_vars

\* load_models has replaced the parameters of an agent that never learnt
C6_Witness ==
    /\ ret.op = "load_models"
    /\ ret.outcome = "returned"
    /\ actor_grad = "none"
    /\ actor_params = 2
    /\ critic_params = 2
    /\ actor_file = 2

\* C7 (as claimed): the action is 2 tanh(raw) and log_prob is the summed
\* log-density at the draw raw.
C7_LogProbAtRaw ==
    ret.op = "choose_action" =>
        LET s == ret.value.sample
        IN /\ s.action = [d \in 1..Len(s.raw) |-> 2 * Tanh(s.raw[d])]
           /\ s.log_prob =
                 SumSeq([d \in 1..Len(s.raw) |-> LogProb(s.raw[d], s.mean[d], s.std[d])])

\* C7 (amended): the action is 2 tanh(raw) and log_prob is the summed
\* log-density at that returned, squashed action.
C7_LogProbAtAction ==
    ret.op = "choose_action" =>
        LET s == ret.value.sample
        IN /\ s.action = [d \in 1..Len(s.raw) |-> 2 * Tanh(s.raw[d])]
           /\ s.log_prob =
                 SumSeq([d \in 1..Len(s.raw) |->
                           LogProb(2 * Tanh(s.raw[d]), s.mean[d], s.std[d])])

\* a draw whose squashed action differs from it, and so does the log-density
C7_Witness ==
    /\ ret.op = "choose_action"
    /\ ret.value.sample.raw = <<100, -200>>
    /\ ret.value.sample.action = <<152, -192>>
    /\ ret.value.sample.mean = <<0, 0>>
    /\ ret.value.sample.std = <<100, 100>>
    /\ ret.value.sample.log_prob = -483
    /\ LogProbSum(<<100, -200>>, <<0, 0>>, <<100, 100>>) = -434

\* every term of a product tensor combines one buffer position with itself
\* (elements <<advantage, <<new, old>>>>)
Aligned(w, B) ==
    /\ Cardinality(DOMAIN w.at) = B
    /\ \A ix \in DOMAIN w.at :
          w.at[ix][1] = w.at[ix][2][1] /\ w.at[ix][1] = w.at[ix][2][2]
AlignedClipped(w, B) ==
    /\ Cardinality(DOMAIN w.at) = B
    /\ \A ix \in DOMAIN w.at :
          w.at[ix][2] = w.at[ix][1][1] /\ w.at[ix][2] = w.at[ix][1][2]

\* C8 (as claimed): the surrogate of a batch has one term per transition of the
\* batch, and each term combines the ratio and the advantage of one transition.
C8_TermsAligned ==
    BatchLoaded =>
        /\ Aligned(loss.weighted_probs, Len(batches[bi + 1]))
        /\ AlignedClipped(loss.weighted_clipped_probs, Len(batches[bi + 1]))

\* C9: in learn(), batches and advantages are made once per epoch; before a
\* batch begins every earlier batch has had its optimizer step; gradients are
\* zeroed, then computed, then clipped, and are clipped when the step is made;
\* after the last epoch both networks have had n_epochs * ceil(n/b) steps.
C9_UpdateSchedule ==
    /\ pc = "idle" => (n_gen = 0 /\ n_adv = 0 /\ actor_steps = 0 /\ critic_steps = 0)
    /\ pc = "epoch" => (n_gen = ep /\ n_adv = ep)
    /\ InEpoch =>
          /\ n_gen = ep + 1 /\ n_adv = ep + 1
          /\ Len(batches) = Ceil(Len(states), batch_size)
          /\ actor_steps = ep * Len(batches) + bi
          /\ critic_steps = actor_steps
    /\ pc = "backward" => (actor_grad = "zero" /\ critic_grad = "zero")
    /\ pc = "clip" => (actor_grad = "computed" /\ critic_grad = "computed")
    /\ pc = "step" => (actor_grad = "clipped" /\ critic_grad = "clipped")
    /\ (pc = "epoch" /\ ep = n_epochs) =>
          /\ n_gen = n_epochs
          /\ actor_steps = n_epochs * Ceil(Len(states), batch_size)
          /\ critic_steps = n_epochs * Ceil(Len(states), batch_size)

\* two epochs over three transitions in batches of two: four steps each
C9_Witness ==
    /\ pc = "epoch"
    /\ ep = 2
    /\ n_epochs = 2
    /\ Len(states) = 3
    /\ batch_size = 2
    /\ n_gen = 2
    /\ actor_steps = 4
    /\ critic_steps = 4

\* C10: the running statistics change only in a call of normalize_reward, which
\* sets both by the moving averages of lines 159-160 and leaves the buffer
\* alone; the rewards learn() reads are those passed to remember.
C10_StatsFrame ==
    [][/\ (running_mean' # running_mean \/ running_var' # running_var) =>
             n_norm' = n_norm + 1
       /\ n_norm' # n_norm =>
             /\ \E reward \in NormRewards :
                   /\ running_mean' = (99 * running_mean + reward) \div 100
                   /\ running_var' =
                         (99 * running_var
                            + ((reward - running_mean') * (reward - running_mean'))
                                 \div 10000) \div 100
             /\ UNCHANGED <<memvars, stored>>
       /\ InEpoch' =>
             arr'.reward_arr = [i \in 1..Len(stored') |-> stored'[i].reward]]_vars

\* both statistics have been updated twice and have outlived a learn() on a
\* filled buffer
C10_Witness ==
    /\ ret.op = "learn"
    /\ ret.outcome = "returned"
    /\ actor_grad = "clipped"
    /\ n_norm = 2
    /\ running_mean = 199
    /\ running_var = 9994

====
